---- MODULE Spec2Model ----
(***************************************************************************)
(* A model of census.py: the field parsers, the record loader, the         *)
(* validator (remove_invalid) and the deduplicator (remove_duplicates,     *)
(* maybe_duplicates).                                                      *)
(*                                                                         *)
(* A Python str is a sequence of one-character strings, None is the value  *)
(* None below, a tuple is a tuple, and a raised exception is the pair      *)
(* <<"raise", message>>.                                                   *)
(***************************************************************************)
EXTENDS Integers, Sequences, FiniteSets, TLC

VARIABLES
    text,        \* the raw field text handed to a field parser
    result,      \* the last field-parser call: [op, out], and the text written for a re-parse
    csv_rows,    \* the raw rows read so far, as csv.DictReader yields them
    default_group, \* load's group argument, or None
    pc,          \* the command's position: "start", "loaded", "unique", "done", "failed"
    loaded,      \* the list load returned (merge_files: everything)
    kept,        \* remove_invalid: the first output
    invalid,     \* remove_invalid: the second output
    unique,      \* remove_duplicates: the first output
    duplicates,  \* remove_duplicates: the second output
    maybe,       \* maybe_duplicates: its output
    reporting_year, \* filter_eligable's reporting_year argument, None before the call
    eligable,    \* filter_eligable: its output
    error        \* the exception that ended the command, or None

vars == <<text, result, csv_rows, default_group, pc, loaded, kept, invalid, unique, duplicates, maybe,
          reporting_year, eligable, error>>

---------------------------------------------------------------------------
(* Values *)

None == <<"None">>

Raise(msg) == <<"raise", msg>>

IsRaise(v) == Len(v) = 2 /\ v[1] = "raise"

REPORTING_YEAR == <<"2", "0", "1", "9">>

DigitSeq == <<"0", "1", "2", "3", "4", "5", "6", "7", "8", "9">>

IsDigit(c) == \E i \in 1..10 : DigitSeq[i] = c

\* int() of one decimal digit
DigitVal(c) == (CHOOSE i \in 1..10 : DigitSeq[i] = c) - 1

\* the character class [ ./-] of the two date patterns
IsSeparator(c) == c \in {" ", ".", "/", "-"}

DigitsAt(t, p, n) == p + n - 1 <= Len(t) /\ \A i \in p..(p + n - 1) : IsDigit(t[i])

\* [ ./-]? at position p: the separator is not a digit and every continuation
\* of both patterns starts with a digit, so the optional separator is consumed
\* exactly when it is there
SkipSeparator(t, p) == IF p <= Len(t) /\ IsSeparator(t[p]) THEN p + 1 ELSE p

\* $ without re.MULTILINE: the end of the text, or just before a final newline
AtEnd(t, p) == p = Len(t) + 1 \/ (p = Len(t) /\ t[p] = "\n")

NoMatch == <<"NoMatch">>

---------------------------------------------------------------------------
(* str methods *)

UpperSeq == <<"A", "B", "C", "D", "E", "F", "G", "H", "I", "J", "K", "L", "M", "N",
              "O", "P", "Q", "R", "S", "T", "U", "V", "W", "X", "Y", "Z",
              "Å", "Ä", "Ö", "É">>

LowerSeq == <<"a", "b", "c", "d", "e", "f", "g", "h", "i", "j", "k", "l", "m", "n",
              "o", "p", "q", "r", "s", "t", "u", "v", "w", "x", "y", "z",
              "å", "ä", "ö", "é">>

\* the letters of UpperSeq and LowerSeq without their combining marks
BaseSeq == <<"a", "b", "c", "d", "e", "f", "g", "h", "i", "j", "k", "l", "m", "n",
             "o", "p", "q", "r", "s", "t", "u", "v", "w", "x", "y", "z",
             "a", "a", "o", "e">>

NLetters == Len(UpperSeq)

Letters == 1..NLetters

LowerOf == [c \in {UpperSeq[i] : i \in Letters} |->
               LowerSeq[CHOOSE i \in Letters : UpperSeq[i] = c]]

UpperOf == [c \in {LowerSeq[i] : i \in Letters} |->
               UpperSeq[CHOOSE i \in Letters : LowerSeq[i] = c]]

\* NFD, then the characters of category Mn dropped: an accented letter becomes
\* its base letter, in the same case
BaseOf == [c \in {LowerSeq[i] : i \in Letters} \cup {UpperSeq[i] : i \in Letters} |->
              IF \E i \in Letters : LowerSeq[i] = c
              THEN BaseSeq[CHOOSE i \in Letters : LowerSeq[i] = c]
              ELSE UpperOf[BaseSeq[CHOOSE i \in Letters : UpperSeq[i] = c]]]

LowerChar(c) == IF c \in DOMAIN LowerOf THEN LowerOf[c] ELSE c

UpperChar(c) == IF c \in DOMAIN UpperOf THEN UpperOf[c] ELSE c

StripAccentChar(c) == IF c \in DOMAIN BaseOf THEN BaseOf[c] ELSE c

lower(t) == [i \in 1..Len(t) |-> LowerChar(t[i])]

upper(t) == [i \in 1..Len(t) |-> UpperChar(t[i])]

casefold(t) == [i \in 1..Len(t) |-> LowerChar(t[i])]

strip_accents(t) == [i \in 1..Len(t) |-> StripAccentChar(t[i])]

IsSpace(c) == c \in {" ", "\t", "\n"}

RECURSIVE lstrip(_)
lstrip(t) == IF t # <<>> /\ IsSpace(Head(t)) THEN lstrip(Tail(t)) ELSE t

RECURSIVE rstrip(_)
rstrip(t) ==
    IF t # <<>> /\ IsSpace(t[Len(t)]) THEN rstrip(SubSeq(t, 1, Len(t) - 1)) ELSE t

\* str.strip()
strip(t) == rstrip(lstrip(t))

\* str.replace(' ', '')
RemoveSpaces(t) == LET notSpace(c) == c # " " IN SelectSeq(t, notSpace)

startswith(t, prefix) ==
    Len(t) >= Len(prefix) /\ SubSeq(t, 1, Len(prefix)) = prefix

\* str.split(';')
RECURSIVE split(_)
split(t) ==
    LET semis == {i \in 1..Len(t) : t[i] = ";"}
    IN  IF semis = {} THEN <<t>>
        ELSE LET i == CHOOSE k \in semis : \A j \in semis : k <= j
             IN  <<SubSeq(t, 1, i - 1)>> \o split(SubSeq(t, i + 1, Len(t)))

\* str(x) of a str or of None
str(x) == IF x = None THEN <<"N", "o", "n", "e">> ELSE x

---------------------------------------------------------------------------
(* Field parsers *)

parse_year(t) ==
    IF Len(t) = 2
    THEN IF DigitVal(t[1]) * 10 + DigitVal(t[2]) > 50
         THEN <<"1", "9">> \o t
         ELSE <<"2", "0">> \o t
    ELSE t

\* (?:[ ./-]?(\d{2})[ ./-]?(\d{2})(?:[ ./-]?(\d{4}))?)?$ from position p:
\* the groups (month, day, suffix), the optional parts tried present first
BirthDateRest(t, p) ==
    LET p1 == SkipSeparator(t, p)
        p2 == SkipSeparator(t, p1 + 2)
        p3 == p2 + 2
        p4 == SkipSeparator(t, p3)
    IN  IF DigitsAt(t, p1, 2) /\ DigitsAt(t, p2, 2) /\ DigitsAt(t, p4, 4) /\ AtEnd(t, p4 + 4)
        THEN <<SubSeq(t, p1, p1 + 1), SubSeq(t, p2, p2 + 1), SubSeq(t, p4, p4 + 3)>>
        ELSE IF DigitsAt(t, p1, 2) /\ DigitsAt(t, p2, 2) /\ AtEnd(t, p3)
        THEN <<SubSeq(t, p1, p1 + 1), SubSeq(t, p2, p2 + 1), None>>
        ELSE IF AtEnd(t, p)
        THEN <<None, None, None>>
        ELSE NoMatch

\* ^(\d{2,4}) followed by the rest: the greedy year is tried with 4, then 3,
\* then 2 digits, and the first length for which the rest matches wins
BirthDateMatch(t) ==
    LET try(n) == IF DigitsAt(t, 1, n) THEN BirthDateRest(t, n + 1) ELSE NoMatch
        lens == {n \in 2..4 : try(n) # NoMatch}
    IN  IF lens = {} THEN NoMatch
        ELSE LET n == CHOOSE m \in lens : \A k \in lens : k <= m
             IN  <<SubSeq(t, 1, n)>> \o try(n)

parse_birth_date(t) ==
    IF t \in {<<>>, <<"?">>, <<"0">>}
    THEN None
    ELSE LET parts == BirthDateMatch(t)
         IN  IF parts # NoMatch
             THEN <<parse_year(parts[1]), parts[2], parts[3], parts[4]>>
             ELSE Raise("ValueError: invalid birth date")

\* a variant of format_birth_date that never writes the suffix
format_birth_date_no_suffix(parts) ==
    IF parts = None THEN <<>>
    ELSE IF parts[2] # None
    THEN parts[1] \o <<"-">> \o parts[2] \o <<"-">> \o parts[3]
    ELSE parts[1]

format_birth_date(parts) ==
    IF parts = None THEN <<>>
    ELSE IF parts[4] # None
    THEN parts[1] \o <<"-">> \o parts[2] \o <<"-">> \o parts[3] \o <<"-">> \o parts[4]
    ELSE IF parts[2] # None
    THEN parts[1] \o <<"-">> \o parts[2] \o <<"-">> \o parts[3]
    ELSE parts[1]

\* [ ./-]?(\d{2})(?:[ ./-]?(\d{2}))?$ from position p: the groups (month, day)
DateRest(t, p) ==
    LET p1 == SkipSeparator(t, p)
        p2 == SkipSeparator(t, p1 + 2)
    IN  IF DigitsAt(t, p1, 2) /\ DigitsAt(t, p2, 2) /\ AtEnd(t, p2 + 2)
        THEN <<SubSeq(t, p1, p1 + 1), SubSeq(t, p2, p2 + 1)>>
        ELSE IF DigitsAt(t, p1, 2) /\ AtEnd(t, p1 + 2)
        THEN <<SubSeq(t, p1, p1 + 1), None>>
        ELSE NoMatch

DateMatch(t) ==
    LET try(n) == IF DigitsAt(t, 1, n) THEN DateRest(t, n + 1) ELSE NoMatch
        lens == {n \in 2..4 : try(n) # NoMatch}
    IN  IF lens = {} THEN NoMatch
        ELSE LET n == CHOOSE m \in lens : \A k \in lens : k <= m
             IN  <<SubSeq(t, 1, n)>> \o try(n)

parse_date(t) ==
    IF t = <<>>
    THEN None
    ELSE LET parts == DateMatch(t)
         IN  IF parts # NoMatch
             THEN <<parse_year(parts[1]), parts[2], parts[3]>>
             ELSE Raise("ValueError: invalid confirmation date")

format_date(parts) ==
    IF parts = None THEN <<>>
    ELSE IF parts[3] = None
    THEN parts[1] \o <<"-">> \o parts[2]
    ELSE parts[1] \o <<"-">> \o parts[2] \o <<"-">> \o parts[3]

fudge_gender(birth_date) ==
    IF birth_date[4] # None
    THEN IF DigitVal(birth_date[4][3]) % 2 = 0 THEN <<"K">> ELSE <<"M">>
    ELSE None

GenderFemale == {<<"K">>, <<"F">>, <<"F", "E", "M", "A", "L", "E">>,
                 <<"K", "V", "I", "N", "N", "A">>, <<"T", "J", "E", "J">>}

GenderMale == {<<"M">>, <<"M", "A", "N">>, <<"M", "A", "L", "E">>,
               <<"K", "I", "L", "L", "E">>}

GenderNone == {<<>>, <<"?">>, <<"E", "J", " ", "S", "V", "A", "R">>,
               <<"A", "N", "N", "A", "T">>,
               <<"U", "P", "P", "G", "I", "F", "T", " ", "O", "K", "Ä", "N", "D">>,
               <<"V", "I", "L", "L", " ", "E", "J", " ", "U", "P", "P", "G", "E">>}

parse_gender(t) ==
    LET u == upper(t)
    IN  IF u \in GenderFemale THEN <<"K">>
        ELSE IF u \in GenderMale THEN <<"M">>
        ELSE IF u \in GenderNone THEN None
        ELSE Raise("ValueError: invalid gender")

PostalSentinels == {<<>>, <<"-">>, <<"s", "a", "k", "n", "a", "s">>,
                    <<"v", "e", "t", "e", "j">>}

normalize_postal_code(t) ==
    LET n == RemoveSpaces(lower(t))
    IN  IF n \in PostalSentinels THEN None
        ELSE IF startswith(n, <<"s", "k", "y", "d", "d", "a", "d">>) THEN None
        ELSE IF DigitsAt(n, 1, 5) THEN SubSeq(n, 1, 5)
        ELSE Raise("ValueError: invalid postal code")

parse_groups(t) == IF t # None THEN split(t) ELSE <<>>

---------------------------------------------------------------------------
(* Loader, validator, deduplicator *)

\* if row['birth_date'].startswith(':'): row['birth_date'] = row['birth_date'][1:]
StripColon(row) ==
    IF startswith(row.birth_date, <<":">>)
    THEN [row EXCEPT !.birth_date = Tail(row.birth_date)]
    ELSE row

clean_whitespace(row) ==
    StripColon([f \in DOMAIN row |-> IF row[f] # None THEN strip(row[f]) ELSE None])

\* the end of one iteration of load's loop, the fields parsed: the first
\* exception a parser raised, else the record appended to result
LoadedRow(row, gender, birth_date, postal_code, confirmed, groups, group) ==
    IF IsRaise(gender) THEN [ok |-> FALSE, error |-> gender]
    ELSE IF IsRaise(birth_date) THEN [ok |-> FALSE, error |-> birth_date]
    ELSE IF IsRaise(postal_code) THEN [ok |-> FALSE, error |-> postal_code]
    ELSE IF IsRaise(confirmed) THEN [ok |-> FALSE, error |-> confirmed]
    ELSE [ok |-> TRUE,
          row |-> [row EXCEPT
              !.gender = IF gender = None /\ birth_date # None
                         THEN fudge_gender(birth_date)
                         ELSE gender,
              !.birth_date = birth_date,
              !.address_postal_code = postal_code,
              !.confirmed_membership_at = confirmed,
              !.groups = IF groups = <<>> /\ group # None
                         THEN <<group>>
                         ELSE groups]]

\* one iteration of load's loop on a row clean_whitespace has been through
ParseRow(row, group) ==
    LoadedRow(row,
              parse_gender(row.gender),
              parse_birth_date(row.birth_date),
              normalize_postal_code(row.address_postal_code),
              parse_date(row.confirmed_membership_at),
              parse_groups(row.groups),
              group)

\* one iteration of load's loop
LoadRow(raw, group) == ParseRow(clean_whitespace(raw), group)

CauseConfirmedNotGiven ==
    <<"confirmed_membership_at not given">>

CauseConfirmedOtherYear ==
    <<"confirmed_membership_at is not ">> \o REPORTING_YEAR

CauseBirthDate == <<"birth_date not given">>

CauseGender == <<"gender not given">>

CausePostalCode == <<"address_postal_code not given">>

CauseContact == <<"neither email nor phone given">>

\* a variant of RemovalCause that tests the gender before the confirmation date
RemovalCauseGenderFirst(row) ==
    IF row.gender = None THEN CauseGender
    ELSE IF row.confirmed_membership_at = None THEN CauseConfirmedNotGiven
    ELSE IF row.confirmed_membership_at[1] # REPORTING_YEAR THEN CauseConfirmedOtherYear
    ELSE IF row.birth_date = None THEN CauseBirthDate
    ELSE IF row.address_postal_code = None THEN CausePostalCode
    ELSE IF row.email = <<>> /\ row.phone = <<>> THEN CauseContact
    ELSE None

\* the if/elif chain of remove_invalid: the cause of removal, None for a kept row
RemovalCause(row) ==
    IF row.confirmed_membership_at = None THEN CauseConfirmedNotGiven
    ELSE IF row.confirmed_membership_at[1] # REPORTING_YEAR THEN CauseConfirmedOtherYear
    ELSE IF row.birth_date = None THEN CauseBirthDate
    ELSE IF row.gender = None THEN CauseGender
    ELSE IF row.address_postal_code = None THEN CausePostalCode
    ELSE IF row.email = <<>> /\ row.phone = <<>> THEN CauseContact
    ELSE None

\* remove(row, why) or kept.append(row), for the rows after it
Partition(row, why, rest) ==
    IF why # None
    THEN <<rest[1], <<[row EXCEPT !.removal_cause = why]>> \o rest[2]>>
    ELSE <<<<row>> \o rest[1], rest[2]>>

\* remove_invalid: <<kept, invalid>>
RECURSIVE remove_invalid(_)
remove_invalid(rows) ==
    IF rows = <<>> THEN <<<<>>, <<>>>>
    ELSE Partition(Head(rows), RemovalCause(Head(rows)), remove_invalid(Tail(rows)))

\* remove() writes removal_cause into the row object itself, which the
\* caller's list holds too
Removed(row, why) ==
    IF why # None THEN [row EXCEPT !.removal_cause = why] ELSE row

\* the caller's rows as remove_invalid leaves them
AfterRemoveInvalid(rows) ==
    [i \in 1..Len(rows) |-> Removed(rows[i], RemovalCause(rows[i]))]

FoldedName(row) ==
    casefold(strip_accents(row.first_name)) \o <<":">>
        \o casefold(strip_accents(row.last_name))

\* maybe_duplicates.make_key
maybe_key(row) == FoldedName(row)

\* remove_duplicates.make_key; date[0] of None raises TypeError
make_key(row) ==
    LET date == row.birth_date
    IN  IF date = None
        THEN Raise("TypeError: 'NoneType' object is not subscriptable")
        ELSE FoldedName(row)
                 \o <<":">> \o str(date[1]) \o str(date[2]) \o str(date[3])
                 \o <<":">> \o str(row.address_postal_code)

\* the keys of rows_by_key in the order a dict keeps them: first insertion
RECURSIVE KeyOrder(_, _)
KeyOrder(keys, seen) ==
    IF keys = <<>> THEN seen
    ELSE IF \E i \in 1..Len(seen) : seen[i] = Head(keys)
    THEN KeyOrder(Tail(keys), seen)
    ELSE KeyOrder(Tail(keys), Append(seen, Head(keys)))

\* rows_by_key[k]
Members(rows, keys, k) ==
    LET idx == {i \in 1..Len(rows) : keys[i] = k}
        RECURSIVE pick(_)
        pick(i) == IF i > Len(rows) THEN <<>>
                   ELSE IF i \in idx THEN <<rows[i]>> \o pick(i + 1)
                   ELSE pick(i + 1)
    IN  pick(1)

\* for group in single['groups']: if group not in groups: groups.append(group)
RECURSIVE AppendNew(_, _)
AppendNew(groups, more) ==
    IF more = <<>> THEN groups
    ELSE IF \E i \in 1..Len(groups) : groups[i] = Head(more)
    THEN AppendNew(groups, Tail(more))
    ELSE AppendNew(Append(groups, Head(more)), Tail(more))

RECURSIVE MergedGroups(_, _)
MergedGroups(member, groups) ==
    IF member = <<>> THEN groups
    ELSE MergedGroups(Tail(member), AppendNew(groups, Head(member).groups))

\* first = copy(member[0]); first['groups'] = groups
Representative(member) ==
    [member[1] EXCEPT !.groups = MergedGroups(member, <<>>)]

\* if len(member) > 1: duplicates.extend(member)
Reported(member) == IF Len(member) > 1 THEN member ELSE <<>>

RECURSIVE Flatten(_)
Flatten(lists) == IF lists = <<>> THEN <<>> ELSE Head(lists) \o Flatten(Tail(lists))

\* the two loops of remove_duplicates, over the keys make_key returned
GroupByKey(rows, keys, order) ==
    IF \E i \in 1..Len(rows) : IsRaise(keys[i])
    THEN [ok |-> FALSE,
          error |-> keys[CHOOSE i \in 1..Len(rows) :
                            /\ IsRaise(keys[i])
                            /\ \A j \in 1..(i - 1) : ~IsRaise(keys[j])]]
    ELSE [ok |-> TRUE,
          unique |-> [n \in 1..Len(order) |->
                         Representative(Members(rows, keys, order[n]))],
          duplicates |-> Flatten([n \in 1..Len(order) |->
                                     Reported(Members(rows, keys, order[n]))])]

KeyedBy(rows, keys) == GroupByKey(rows, keys, KeyOrder(keys, <<>>))

\* remove_duplicates: [ok, unique, duplicates], or the exception make_key raised
remove_duplicates(rows) ==
    KeyedBy(rows, [i \in 1..Len(rows) |-> make_key(rows[i])])

MaybeKeyedBy(rows, keys, order) ==
    Flatten([n \in 1..Len(order) |-> Reported(Members(rows, keys, order[n]))])

MaybeKeys(rows, keys) == MaybeKeyedBy(rows, keys, KeyOrder(keys, <<>>))

maybe_duplicates(rows) ==
    MaybeKeys(rows, [i \in 1..Len(rows) |-> maybe_key(rows[i])])

---------------------------------------------------------------------------
(* Grant eligibility *)

\* int(text) of a text of decimal digits
RECURSIVE int(_)
int(t) ==
    IF t = <<>> THEN 0
    ELSE int(SubSeq(t, 1, Len(t) - 1)) * 10 + DigitVal(t[Len(t)])

\* a value a function returned, or the exception it raised
Returned(v) == [ok |-> TRUE, value |-> v]

Raised(msg) == [ok |-> FALSE, error |-> Raise(msg)]

resides_in_stockholm(row) ==
    IF row.address_postal_code = None
    THEN Raised("AttributeError: 'NoneType' object has no attribute 'startswith'")
    ELSE Returned(startswith(row.address_postal_code, <<"1">>))

\* assert result >= 0
AssertedAge(age) ==
    IF age >= 0 THEN Returned(age) ELSE Raised("AssertionError")

calculate_age(year, row) ==
    IF row.birth_date = None
    THEN Raised("TypeError: 'NoneType' object is not subscriptable")
    ELSE AssertedAge(int(year) - int(row.birth_date[1]))

\* a variant of EligableAtAge that takes the lower bound of the age strictly
EligableAtAgeOver6(age, row) ==
    IF ~age.ok THEN age
    ELSE IF 6 < age.value /\ age.value <= 25 THEN resides_in_stockholm(row)
    ELSE Returned(FALSE)

\* 6 <= age <= 25 and resides_in_stockholm(row), age being what calculate_age
\* returned or raised: "and" does not evaluate its right side after a false left
EligableAtAge(age, row) ==
    IF ~age.ok THEN age
    ELSE IF 6 <= age.value /\ age.value <= 25 THEN resides_in_stockholm(row)
    ELSE Returned(FALSE)

is_eligable_for_grant(year, row) == EligableAtAge(calculate_age(year, row), row)

\* the rows of the comprehension whose condition was true, in order
RECURSIVE Chosen(_, _, _)
Chosen(rows, verdicts, i) ==
    IF i > Len(rows) THEN <<>>
    ELSE (IF verdicts[i].value THEN <<rows[i]>> ELSE <<>>) \o Chosen(rows, verdicts, i + 1)

\* [row for row in rows if ...]: the first exception a condition raised ends it
Comprehension(rows, verdicts) ==
    IF \E i \in 1..Len(rows) : ~verdicts[i].ok
    THEN [ok |-> FALSE,
          error |-> verdicts[CHOOSE i \in 1..Len(rows) :
                                /\ ~verdicts[i].ok
                                /\ \A j \in 1..(i - 1) : verdicts[j].ok].error]
    ELSE [ok |-> TRUE, rows |-> Chosen(rows, verdicts, 1)]

filter_stockholm(rows) ==
    Comprehension(rows, [i \in 1..Len(rows) |-> resides_in_stockholm(rows[i])])

filter_eligable(year, rows) ==
    Comprehension(rows, [i \in 1..Len(rows) |-> is_eligable_for_grant(year, rows[i])])

---------------------------------------------------------------------------
(* The date parsers applied to typed text *)

MaxTextLen == 10

DateChars == {"0", "5", "-"}

Idle == [op |-> "none", out |-> None]

InitState ==
    /\ text = <<>>
    /\ result = Idle
    /\ csv_rows = <<>>
    /\ default_group = None
    /\ pc = "start"
    /\ loaded = <<>>
    /\ kept = <<>>
    /\ invalid = <<>>
    /\ unique = <<>>
    /\ duplicates = <<>>
    /\ maybe = <<>>
    /\ reporting_year = None
    /\ eligable = <<>>
    /\ error = None

Init == InitState

pipeline == <<csv_rows, default_group, pc, loaded, kept, invalid, unique, duplicates, maybe,
              reporting_year, eligable, error>>

\* one more character of the field under test; the earlier result is stale
Type(c) ==
    /\ Len(text) < MaxTextLen
    /\ text' = Append(text, c)
    /\ result' = Idle
    /\ UNCHANGED pipeline

ParseBirthDate ==
    /\ result = Idle
    /\ result' = [op |-> "parse_birth_date", out |-> parse_birth_date(text)]
    /\ UNCHANGED <<text, pipeline>>

ParseDate ==
    /\ result = Idle
    /\ result' = [op |-> "parse_date", out |-> parse_date(text)]
    /\ UNCHANGED <<text, pipeline>>

\* save followed by load: the birth date is written with format_birth_date and
\* read back with parse_birth_date
ReparseBirthDate ==
    /\ result.op = "parse_birth_date"
    /\ ~IsRaise(result.out)
    /\ result' = [op |-> "reparse_birth_date",
                  written |-> format_birth_date(result.out),
                  out |-> parse_birth_date(format_birth_date(result.out))]
    /\ UNCHANGED <<text, pipeline>>

NextDates ==
    \/ \E c \in DateChars : Type(c)
    \/ ParseBirthDate
    \/ ParseDate
    \/ ReparseBirthDate

SpecDates == Init /\ [][NextDates]_vars

---------------------------------------------------------------------------
(* normalize_postal_code applied to typed text *)

MaxPostalLen == 8

PostalKeys == {<<"1">>, <<" ">>, <<"-">>, <<"S">>,
               <<"s", "a", "k", "n", "a", "s">>,
               <<"V", "e", "t", " ", "e", "j">>,
               <<"S", "k", "y", "d", "d", "a", "d">>}

TypeKey(w) ==
    /\ Len(text) + Len(w) <= MaxPostalLen
    /\ text' = text \o w
    /\ result' = Idle
    /\ UNCHANGED pipeline

NormalizePostalCode ==
    /\ result = Idle
    /\ result' = [op |-> "normalize_postal_code", out |-> normalize_postal_code(text)]
    /\ UNCHANGED <<text, pipeline>>

NextPostal ==
    \/ \E w \in PostalKeys : TypeKey(w)
    \/ NormalizePostalCode

SpecPostal == Init /\ [][NextPostal]_vars

---------------------------------------------------------------------------
(* The commands *)

MaxLoadRows == 2

MaxNormalizeRows == 2

MaxMergeRows == 3

\* a row of csv.DictReader(infile, FIELDS): a str per column, None for the
\* columns the line does not have
Row(first, last, birth, gender, postal, email, phone, confirmed, groups) ==
    [first_name |-> first,
     last_name |-> last,
     birth_date |-> birth,
     gender |-> gender,
     address_co |-> <<>>,
     address_street |-> <<"G", "a", "t", "a", "n", " ", "1">>,
     address_postal_code |-> postal,
     email |-> email,
     phone |-> phone,
     confirmed_membership_at |-> confirmed,
     groups |-> groups,
     removal_cause |-> None]

\* what one pass of load's loop leaves, r being what LoadRow returned: the
\* record appended to result, or the exception that ends the command
Appended(raw, g, r) ==
    /\ pc \in {"start", "loaded"}
    /\ csv_rows = <<>> \/ default_group = g
    /\ csv_rows' = Append(csv_rows, raw)
    /\ default_group' = g
    /\ IF r.ok
       THEN pc' = "loaded" /\ loaded' = Append(loaded, r.row) /\ error' = None
       ELSE pc' = "failed" /\ loaded' = <<>> /\ error' = r.error
    /\ UNCHANGED <<text, result, kept, invalid, unique, duplicates, maybe, reporting_year, eligable>>

\* load(infile, group), one pass of its loop: the next row of the file is
\* cleaned, parsed and appended. The file may end after any row, so what load
\* returns is loaded in any state with pc = "loaded" (or "start": no rows).
\* merge_files extends everything by what each load returns, with no group:
\* there loaded is everything.
Load(raw, g) == Appended(raw, g, LoadRow(raw, g))

Validated(r) ==
    /\ pc \in {"start", "loaded"}
    /\ kept' = r[1]
    /\ invalid' = r[2]
    /\ loaded' = AfterRemoveInvalid(loaded)
    /\ pc' = "done"
    /\ UNCHANGED <<text, result, csv_rows, default_group, unique, duplicates, maybe,
                   reporting_year, eligable, error>>

\* kept, invalid = remove_invalid(loaded)
RemoveInvalid == Validated(remove_invalid(loaded))

Deduplicated(r) ==
    /\ pc \in {"start", "loaded"}
    /\ IF r.ok
       THEN /\ pc' = "unique"
            /\ unique' = r.unique
            /\ duplicates' = r.duplicates
            /\ error' = None
       ELSE /\ pc' = "failed"
            /\ unique' = <<>>
            /\ duplicates' = <<>>
            /\ error' = r.error
    /\ UNCHANGED <<text, result, csv_rows, default_group, loaded, kept, invalid, maybe,
                   reporting_year, eligable>>

\* unique, duplicates = remove_duplicates(everything)
RemoveDuplicates == Deduplicated(remove_duplicates(loaded))

\* maybe = maybe_duplicates(everything)
MaybeDuplicates ==
    /\ pc = "unique"
    /\ maybe' = maybe_duplicates(loaded)
    /\ pc' = "done"
    /\ UNCHANGED <<text, result, csv_rows, default_group, loaded, kept, invalid, unique,
                   duplicates, reporting_year, eligable, error>>

---------------------------------------------------------------------------
(* The files the commands are run on *)

Eva == <<"E", "v", "a">>

Ek == <<"E", "k">>

GenderTexts == {<<>>,
                <<"?">>,
                <<"e", "j", " ", "s", "v", "a", "r">>,
                <<"U", "p", "p", "g", "i", "f", "t", " ", "o", "k", "ä", "n", "d">>,
                <<"a", "n", "n", "a", "t">>,
                <<"V", "i", "l", "l", " ", "e", "j", " ", "u", "p", "p", "g", "e">>,
                <<" ", "K", "v", "i", "n", "n", "a", " ">>,
                <<"m">>,
                <<"W", "A", "T">>}

BirthDateTexts == {<<>>,
                   <<"1", "9", "9", "5">>,
                   <<"9", "5", "0", "1", "0", "1", "-", "3", "2", "8", "5">>,
                   <<":", "1", "9", "7", "0", "0", "1", "2", "3", "-", "0", "0", "5", "5">>}

GroupsTexts == {None,
                <<>>,
                <<"A">>,
                <<"B">>,
                <<"A", ";", "A">>,
                <<"A", ";", "B">>,
                <<"A", ";", "B", ";", "A">>,
                <<"A", ";", ";", "B">>}

\* rows that differ in gender and birth date, and rows that differ in groups
LoadRows ==
    {Row(Eva, Ek, b, g, <<"1", "2", "3", " ", "4", "5">>, <<"a", "@", "b">>, <<>>, <<"2", "0", "1", "9", "-", "0", "5", "-", "0", "1">>, <<"A">>) :
        b \in BirthDateTexts, g \in GenderTexts}
    \cup
    {Row(Eva, Ek, <<"1", "9", "9", "5">>, <<"K">>, <<"1", "2", "3", " ", "4", "5">>, <<"a", "@", "b">>, <<>>, <<"2", "0", "1", "9", "-", "0", "5", "-", "0", "1">>, gs) :
        gs \in GroupsTexts}

DefaultGroups == {None, <<"G">>}

\* load on its own, as eligable_file and statistics_file call it
NextLoad ==
    /\ Len(csv_rows) < MaxLoadRows
    /\ \E raw \in LoadRows, g \in DefaultGroups : Load(raw, g)

SpecLoad == Init /\ [][NextLoad]_vars

\* rows that fail every combination of remove_invalid's six checks
ValidatorRows ==
    {Row(Eva, Ek, b, g, p, c[1], c[2], d, <<"A">>) :
        b \in {<<>>, <<"1", "9", "9", "5">>},
        g \in {<<"?">>, <<"K">>},
        p \in {<<"-">>, <<"1", "2", "3", " ", "4", "5">>},
        c \in {<<<<>>, <<>>>>, <<<<"a", "@", "b">>, <<>>>>, <<<<>>, <<"0", "7", "0">>>>},
        d \in {<<>>, <<"2", "0", "1", "8", "-", "0", "5", "-", "0", "1">>, <<"1", "9", ".", "0", "5", ".", "0", "1">>}}

\* normalize_file: load with the file's name as the group, then remove_invalid
NormalizeLoad ==
    /\ Len(csv_rows) < MaxNormalizeRows
    /\ \E raw \in ValidatorRows : Load(raw, <<"G">>)

NextNormalize ==
    \/ NormalizeLoad
    \/ RemoveInvalid

SpecNormalize == Init /\ [][NextNormalize]_vars

\* rows of one person under several spellings, of namesakes, and of rows
\* without birth date, postal code or groups
MergeRows ==
    {Row(<<"É", "v", "a">>, <<"E", "k">>, <<"1", "9", "9", "5", "-", "1", "0", "-", "1", "4">>, <<"K">>,
        <<"1", "2", "3", "4", "5">>, <<"a", "@", "b">>, <<>>, <<"2", "0", "1", "9", "-", "0", "5", "-", "0", "1">>, <<"A">>),
     Row(<<"e", "v", "a">>, <<"E", "K">>, <<"9", "5", "1", "0", "1", "4">>, <<"K">>,
        <<"1", "2", "3", " ", "4", "5">>, <<>>, <<"0", "7", "0">>, <<"2", "0", "1", "9", "-", "0", "5", "-", "0", "1">>, <<"B">>),
     Row(<<"E", "v", "a">>, <<"E", "k">>, <<"1", "9", "9", "5", "-", "1", "0", "-", "1", "4">>, <<"K">>,
        <<"1", "2", "3", "4", "5">>, <<"a", "@", "b">>, <<>>, <<"2", "0", "1", "9", "-", "0", "5", "-", "0", "1">>, <<"B", ";", "A">>),
     Row(<<"E", "v", "a">>, <<"E", "k">>, <<"1", "9", "9", "5">>, <<"K">>,
        <<"1", "2", "3", "4", "5">>, <<"a", "@", "b">>, <<>>, <<"2", "0", "1", "9", "-", "0", "5", "-", "0", "1">>, <<"B">>),
     Row(<<"E", "v", "a">>, <<"E", "k">>, <<"1", "9", "9", "5", "-", "1", "0", "-", "1", "4">>, <<"K">>,
        <<>>, <<"a", "@", "b">>, <<>>, <<"2", "0", "1", "9", "-", "0", "5", "-", "0", "1">>, <<"C">>),
     Row(<<"B", "o">>, <<"E", "k">>, <<"1", "9", "9", "5">>, <<"M">>,
        <<"1", "2", "3", "4", "5">>, <<"a", "@", "b">>, <<>>, <<"2", "0", "1", "9", "-", "0", "5", "-", "0", "1">>, <<"A">>),
     Row(<<"B", "o">>, <<"E", "k">>, <<"1", "9", "9", "5">>, <<"M">>,
        <<"1", "2", "3", "4", "5">>, <<"a", "@", "b">>, <<>>, <<"2", "0", "1", "9", "-", "0", "5", "-", "0", "1">>, None),
     Row(<<"B", "o">>, <<"E", "k">>, <<>>, <<"M">>,
        <<"1", "2", "3", "4", "5">>, <<"a", "@", "b">>, <<>>, <<"2", "0", "1", "9", "-", "0", "5", "-", "0", "1">>, <<"A">>)}

\* merge_files: load every file without a group, then remove_duplicates and
\* maybe_duplicates on everything
MergeLoad ==
    /\ Len(csv_rows) < MaxMergeRows
    /\ \E raw \in MergeRows : Load(raw, None)

NextMerge ==
    \/ MergeLoad
    \/ RemoveDuplicates
    \/ MaybeDuplicates

SpecMerge == Init /\ [][NextMerge]_vars

\* eligable_file: loaded = load(open(path), group), then
\* eligable = filter_eligable(REPORTING_YEAR, loaded); the tests call
\* filter_eligable with the year 2016

MaxEligableRows == 2

ReportingYears == {REPORTING_YEAR, <<"2", "0", "1", "6">>}

EligableBirthDates ==
    {<<>>,
     <<"2", "0", "2", "0">>,
     <<"2", "0", "1", "4">>,
     <<"2", "0", "1", "3">>,
     <<"2", "0", "1", "3", "-", "0", "6", "-", "3", "0">>,
     <<"2", "0", "1", "1">>,
     <<"2", "0", "1", "0">>,
     <<"9", "4", "0", "1", "0", "1", "-", "3", "2", "8", "5">>,
     <<"1", "9", "9", "3">>,
     <<"1", "9", "9", "1">>,
     <<"1", "9", "9", "0">>}

EligablePostalCodes ==
    {<<"1", "4", "2", " ", "3", "1">>, <<"9", "8", "2", "1", "2">>, <<"-">>}

EligableRows ==
    {Row(Eva, Ek, b, <<"K">>, p, <<"a", "@", "b">>, <<>>,
         <<"2", "0", "1", "9", "-", "0", "5", "-", "0", "1">>, <<"A">>) :
        b \in EligableBirthDates, p \in EligablePostalCodes}

EligableLoad ==
    /\ Len(csv_rows) < MaxEligableRows
    /\ \E raw \in EligableRows : Load(raw, <<"G">>)

\* what the call of filter_eligable leaves, r being what it returned or raised
Filtered(year, r) ==
    /\ pc \in {"start", "loaded"}
    /\ reporting_year' = year
    /\ IF r.ok
       THEN pc' = "done" /\ eligable' = r.rows /\ error' = None
       ELSE pc' = "failed" /\ eligable' = <<>> /\ error' = r.error
    /\ UNCHANGED <<text, result, csv_rows, default_group, loaded, kept, invalid, unique,
                   duplicates, maybe>>

\* eligable = filter_eligable(reporting_year, loaded)
FilterEligable == \E year \in ReportingYears : Filtered(year, filter_eligable(year, loaded))

NextEligable ==
    \/ EligableLoad
    \/ FilterEligable

SpecEligable == Init /\ [][NextEligable]_vars

---------------------------------------------------------------------------
(* The validator *)

\* the six checks of the validator, in their stated order: those a record fails
FailedChecks(row) ==
    {k \in 1..6 :
        \/ k = 1 /\ row.confirmed_membership_at = None
        \/ k = 2 /\ row.confirmed_membership_at # None
                 /\ row.confirmed_membership_at[1] # REPORTING_YEAR
        \/ k = 3 /\ row.birth_date = None
        \/ k = 4 /\ row.gender = None
        \/ k = 5 /\ row.address_postal_code = None
        \/ k = 6 /\ row.email = <<>> /\ row.phone = <<>>}

ReasonOfCheck ==
    <<CauseConfirmedNotGiven, CauseConfirmedOtherYear, CauseBirthDate,
      CauseGender, CausePostalCode, CauseContact>>

FirstFailedCheck(row) ==
    CHOOSE k \in FailedChecks(row) : \A j \in FailedChecks(row) : k <= j

PassesAllChecks(row) == FailedChecks(row) = {}

FailsSomeCheck(row) == FailedChecks(row) # {}

\* C1: once remove_invalid has run, every loaded record is in exactly one of
\* kept and invalid, in input order: kept holds exactly the records that fail
\* none of the six checks, invalid the others, each with removal_cause the
\* reason of the first check it fails in the order confirmation date absent,
\* confirmation year not the reporting year, birth date absent, gender
\* unknown, postal code absent, neither email nor phone.
C1_FirstFailedCheckWins ==
    pc = "done" =>
        /\ Len(kept) + Len(invalid) = Len(loaded)
        /\ kept = SelectSeq(loaded, PassesAllChecks)
        /\ invalid = SelectSeq(loaded, FailsSomeCheck)
        /\ \A i \in 1..Len(kept) : kept[i].removal_cause = None
        /\ \A i \in 1..Len(invalid) :
               invalid[i].removal_cause = ReasonOfCheck[FirstFailedCheck(invalid[i])]

\* C1 witness: a record without confirmation date and without gender was
\* removed for the confirmation date, beside a record that was kept.
C1_Witness ==
    /\ pc = "done"
    /\ Len(kept) = 1
    /\ \E i \in 1..Len(invalid) :
           /\ invalid[i].confirmed_membership_at = None
           /\ invalid[i].gender = None
           /\ invalid[i].removal_cause = CauseConfirmedNotGiven

---------------------------------------------------------------------------
(* The deduplicator *)

\* the strict key as its parts: the folded accent-stripped first_name:last_name,
\* the birth date's year, month and day, the postal code
StrictKey(row) ==
    <<casefold(strip_accents(row.first_name)) \o <<":">>
          \o casefold(strip_accents(row.last_name)),
      IF row.birth_date = None THEN <<None, None, None>>
      ELSE <<row.birth_date[1], row.birth_date[2], row.birth_date[3]>>,
      row.address_postal_code>>

SameKey(rows, i) == {j \in 1..Len(rows) : StrictKey(rows[j]) = StrictKey(rows[i])}

FirstOf(S) == CHOOSE i \in S : \A j \in S : i <= j

\* the positions <<record, place in its groups list>> of the members' labels
LabelPlaces(rows, S) ==
    UNION {{<<j, n>> : n \in 1..Len(rows[j].groups)} : j \in S}

Before(a, b) == a[1] < b[1] \/ (a[1] = b[1] /\ a[2] < b[2])

FirstPlace(rows, S, label) ==
    CHOOSE pl \in LabelPlaces(rows, S) :
        /\ rows[pl[1]].groups[pl[2]] = label
        /\ \A q \in LabelPlaces(rows, S) :
               rows[q[1]].groups[q[2]] = label => (q = pl \/ Before(pl, q))

\* groups is the members' labels, each once, in order of first appearance
IsUnionInOrder(groups, rows, S) ==
    /\ \A pl \in LabelPlaces(rows, S) :
           \E n \in 1..Len(groups) : groups[n] = rows[pl[1]].groups[pl[2]]
    /\ \A n \in 1..Len(groups) :
           \E pl \in LabelPlaces(rows, S) : groups[n] = rows[pl[1]].groups[pl[2]]
    /\ \A m, n \in 1..Len(groups) :
           m < n => /\ groups[m] # groups[n]
                    /\ Before(FirstPlace(rows, S, groups[m]),
                              FirstPlace(rows, S, groups[n]))

\* u is the merged record of the records that share rows[i]'s key
IsMergedRecord(u, rows, i) ==
    /\ [u EXCEPT !.groups = <<>>] = [rows[FirstOf(SameKey(rows, i))] EXCEPT !.groups = <<>>]
    /\ IsUnionInOrder(u.groups, rows, SameKey(rows, i))

OneMergedRecordPerKey ==
    \A i \in 1..Len(loaded) :
        /\ Cardinality({n \in 1..Len(unique) :
                           StrictKey(unique[n]) = StrictKey(loaded[i])}) = 1
        /\ \E n \in 1..Len(unique) : IsMergedRecord(unique[n], loaded, i)

\* remove_duplicates has been called on the loaded records
Deduplicating ==
    \/ pc \in {"unique", "done"}
    \/ pc = "failed" /\ error[2] = "TypeError: 'NoneType' object is not subscriptable"

\* C2: for every input list and every group of records sharing the strict
\* key, remove_duplicates emits one unique record whose other fields are those
\* of the group's first record and whose groups are the union of the members'
\* labels, each once, in order of first appearance.
C2_OneMergedRecordPerKey == Deduplicating => OneMergedRecordPerKey

\* C2, for the input lists on which remove_duplicates returns.
C2_Returned_OneMergedRecordPerKey ==
    pc \in {"unique", "done"} => OneMergedRecordPerKey

\* C2 case: records with groups ['A'] and ['B'] merged into ['A', 'B'].
C2_Witness ==
    /\ pc = "unique"
    /\ Len(loaded) = 3
    /\ Len(unique) = 2
    /\ loaded[1].groups = <<<<"A">>>>
    /\ loaded[3].groups = <<<<"B">>>>
    /\ unique[1].groups = <<<<"A">>, <<"B">>>>

Count(rows, r) == Cardinality({i \in 1..Len(rows) : rows[i] = r})

SharesKey(rows, i) == Cardinality(SameKey(rows, i)) >= 2

DuplicatesAreTheSharedKeys ==
    /\ \A i \in 1..Len(loaded) :
           Count(duplicates, loaded[i]) =
               IF SharesKey(loaded, i)
               THEN Cardinality({j \in SameKey(loaded, i) : loaded[j] = loaded[i]})
               ELSE 0
    /\ \A n \in 1..Len(duplicates) : \E i \in 1..Len(loaded) : loaded[i] = duplicates[n]
    /\ Len(unique) = Cardinality({StrictKey(loaded[i]) : i \in 1..Len(loaded)})
    /\ \A m, n \in 1..Len(unique) :
           m # n => StrictKey(unique[m]) # StrictKey(unique[n])
    /\ Len(loaded) - Len(unique) =
           Cardinality({i \in 1..Len(loaded) : FirstOf(SameKey(loaded, i)) # i})

\* C3: for every input list, duplicates holds exactly the input records whose
\* strict key at least two input records share, the representative's original
\* record included, and unique holds exactly one record per distinct strict
\* key, so len(input) - len(unique) counts the non-representative records.
C3_DuplicatesAreTheSharedKeys == Deduplicating => DuplicatesAreTheSharedKeys

\* C3, for the input lists on which remove_duplicates returns.
C3_Returned_DuplicatesAreTheSharedKeys ==
    pc \in {"unique", "done"} => DuplicatesAreTheSharedKeys

\* C3 case: a group of two among three records, reported whole.
C3_Witness ==
    /\ pc = "unique"
    /\ Len(loaded) = 3
    /\ Len(unique) = 2
    /\ Len(duplicates) = 2

---------------------------------------------------------------------------
(* The date parsers *)

Accepted(op) == result.op = op /\ ~IsRaise(result.out) /\ result.out # None

\* the text starts with a year of exactly two digits
TwoDigitYear(t) ==
    /\ DigitsAt(t, 1, 2)
    /\ Len(t) = 2 \/ (Len(t) > 2 /\ IsSeparator(t[3]))

Pivot(yy) ==
    IF DigitVal(yy[1]) * 10 + DigitVal(yy[2]) > 50
    THEN <<"1", "9">> \o yy
    ELSE <<"2", "0">> \o yy

\* C4: the year of every accepted birth date and confirmation date has
\* exactly 4 digits, a 2-digit year yy being 19yy when yy > 50 and 20yy
\* otherwise.
C4_YearHasFourDigits ==
    (Accepted("parse_birth_date") \/ Accepted("parse_date")) =>
        /\ Len(result.out[1]) = 4
        /\ TwoDigitYear(text) => result.out[1] = Pivot(SubSeq(text, 1, 2))

AllZeros(t) == t # None /\ \A i \in 1..Len(t) : t[i] = "0"

\* C5: parse_birth_date returns no all-zero suffix, and no all-zero day (nor
\* all-zero month and day) when it returns no suffix.
C5_ZeroGroupsAreAbsent ==
    Accepted("parse_birth_date") =>
        /\ ~AllZeros(result.out[4])
        /\ result.out[4] = None => ~AllZeros(result.out[3])

\* C10: an accepted birth date, written with format_birth_date and parsed
\* again, is the birth date parse_birth_date returned for the text; an absent
\* birth date is written as the empty text, which parses to absent.
C10_BirthDateRoundTrip ==
    result.op = "reparse_birth_date" =>
        /\ result.out = parse_birth_date(text)
        /\ parse_birth_date(text) = None => result.written = <<>>

\* C10 case: a birth date with suffix, its year typed with two digits, has
\* been written and parsed again.
C10_Witness ==
    /\ result.op = "reparse_birth_date"
    /\ Len(text) = 10
    /\ result.out # None
    /\ result.out[4] # None
    /\ result.written # text

---------------------------------------------------------------------------
(* normalize_postal_code *)

Normalized(t) == RemoveSpaces(lower(t))

LeadingDigits(t) ==
    Cardinality({k \in 1..Len(t) : \A i \in 1..k : IsDigit(t[i])})

IsSentinel(t) ==
    \/ t \in {<<>>, <<"-">>, <<"s", "a", "k", "n", "a", "s">>, <<"v", "e", "t", "e", "j">>}
    \/ startswith(t, <<"s", "k", "y", "d", "d", "a", "d">>)

\* C6: normalize_postal_code returns absent for the sentinels, the leading
\* digits of a text that starts with a run of exactly 5 digits, and raises
\* for every other text: fewer than 5 leading digits, or more than 5.
C6_ExactlyFiveDigits ==
    result.op = "normalize_postal_code" =>
        IF IsSentinel(Normalized(text)) THEN result.out = None
        ELSE IF LeadingDigits(Normalized(text)) = 5
        THEN result.out = SubSeq(Normalized(text), 1, 5)
        ELSE IsRaise(result.out)

---------------------------------------------------------------------------
(* The loader *)

GenderOther == {<<"A", "N", "N", "A", "T">>,
                <<"V", "I", "L", "L", " ", "E", "J", " ", "U", "P", "P", "G", "E">>}

GenderUnknown == GenderNone \ GenderOther

GenderGiven(raw) == upper(strip(raw.gender))

SuffixGender(birth_date) ==
    IF birth_date = None THEN None
    ELSE IF birth_date[4] = None THEN None
    ELSE IF DigitVal(birth_date[4][3]) % 2 = 0 THEN <<"K">> ELSE <<"M">>

\* C7: load takes the gender from the national-ID suffix only for a row whose
\* gender text is one of the unknown values; a row that says ANNAT or VILL EJ
\* UPPGE is never loaded as K or M, and a row that says K or M keeps it.
C7_FudgeOnlyWhenUnknown ==
    pc = "loaded" =>
        \A i \in 1..Len(loaded) :
            /\ GenderGiven(csv_rows[i]) \in GenderOther =>
                   loaded[i].gender \notin {<<"K">>, <<"M">>}
            /\ GenderGiven(csv_rows[i]) \in GenderFemale => loaded[i].gender = <<"K">>
            /\ GenderGiven(csv_rows[i]) \in GenderMale => loaded[i].gender = <<"M">>
            /\ GenderGiven(csv_rows[i]) \in GenderUnknown =>
                   loaded[i].gender = SuffixGender(loaded[i].birth_date)

NamesNoGroup(raw) ==
    IF raw.groups = None THEN TRUE ELSE strip(raw.groups) = <<>>

\* C8: under a default group g, a row that names no group (no groups column,
\* or an empty one) is loaded with groups [g], a row that names groups keeps
\* them, and so no loaded record has an empty groups list or an empty name.
C8_DefaultGroupWhenNoneNamed ==
    (pc = "loaded" /\ default_group # None) =>
        \A i \in 1..Len(loaded) :
            /\ NamesNoGroup(csv_rows[i]) => loaded[i].groups = <<default_group>>
            /\ ~NamesNoGroup(csv_rows[i]) => loaded[i].groups = split(strip(csv_rows[i].groups))
            /\ loaded[i].groups # <<>>
            /\ \A n \in 1..Len(loaded[i].groups) : loaded[i].groups[n] # <<>>

NoRepeatedGroup(rows) ==
    \A i \in 1..Len(rows) :
        \A m, n \in 1..Len(rows[i].groups) :
            m # n => rows[i].groups[m] # rows[i].groups[n]

\* C9: every record load returns, every record of both outputs of
\* remove_invalid and every record of both outputs of remove_duplicates has
\* each group name at most once in its groups.
C9_NoRepeatedGroup ==
    /\ NoRepeatedGroup(loaded)
    /\ NoRepeatedGroup(kept)
    /\ NoRepeatedGroup(invalid)
    /\ NoRepeatedGroup(unique)
    /\ NoRepeatedGroup(duplicates)

---------------------------------------------------------------------------
(* Grant eligibility *)

YearOfBirth(row) == int(row.birth_date[1])

\* the record has a birth year not after the reporting year and a postal code
Gradable(row) ==
    /\ row.birth_date # None
    /\ row.address_postal_code # None
    /\ YearOfBirth(row) <= int(reporting_year)

EligibleForGrant(row) ==
    /\ 6 <= int(reporting_year) - YearOfBirth(row)
    /\ int(reporting_year) - YearOfBirth(row) <= 25
    /\ Head(row.address_postal_code) = "1"

FilterCalled == reporting_year # None

\* C11: for every reporting year and every list of records that each have a
\* birth year not after the reporting year and a postal code, filter_eligable
\* returns, in input order, exactly the records with
\* 6 <= reporting year - birth year <= 25 whose postal code starts with '1';
\* the month and day of birth play no part.
C11_EligibleIffAgeAndRegion ==
    (FilterCalled /\ \A i \in 1..Len(loaded) : Gradable(loaded[i])) =>
        /\ pc = "done"
        /\ eligable = SelectSeq(loaded, EligibleForGrant)

\* C11 case: of two in-region records, the one aged 26 is dropped and the one
\* aged 6, born on a known day, is kept.
C11_Witness ==
    /\ pc = "done"
    /\ Len(loaded) = 2
    /\ Gradable(loaded[1]) /\ Gradable(loaded[2])
    /\ Head(loaded[1].address_postal_code) = "1"
    /\ int(reporting_year) - YearOfBirth(loaded[1]) = 26
    /\ int(reporting_year) - YearOfBirth(loaded[2]) = 6
    /\ loaded[2].birth_date[3] # None
    /\ eligable = <<loaded[2]>>

---------------------------------------------------------------------------
(* merge_files on loaded, unvalidated records *)

\* C12: on every list of records that load returned without a parser error,
\* records with an absent birth date or an absent postal code included,
\* remove_duplicates and maybe_duplicates return: neither raises while it
\* builds a record's key.
C12_MergeIsTotal ==
    ~(/\ pc = "failed"
      /\ loaded # <<>>
      /\ IsRaise(error)
      /\ error[2] = "TypeError: 'NoneType' object is not subscriptable")

====
